---- MODULE Spec2Model ----
(***************************************************************************)
(* DNS-Updater: the process invocations of main.py.  A run configures the   *)
(* logger, reads the provider and the record name from the command line,   *)
(* builds the provider environment, and then runs                          *)
(* ProviderCreator.updateIfChanged: fetch the record, resolve the public   *)
(* IP, update the record when the two differ.  Spec is one invocation;     *)
(* SpecRuns is the same command line run several times in a row.           *)
(*                                                                         *)
(* Python strings are TLA+ strings; Python's None is the empty sequence    *)
(* and a present value v is <<v>>.                                         *)
(***************************************************************************)
EXTENDS Integers, Sequences, FiniteSets, TLC

(* ------------------------------ bounds -------------------------------- *)

\* longest command line enumerated exhaustively over Tokens
MaxArgs == 4
\* longest error list a Cloudflare PATCH response carries
MaxErrors == 2
\* process invocations in a row with the same command line
MaxRuns == 3

(* --------------------------- string helpers --------------------------- *)

None == <<>>
Some(v) == <<v>>

CharAt(s, i) == SubSeq(s, i, i)

\* str.startswith
StartsWith(s, p) == Len(s) >= Len(p) /\ SubSeq(s, 1, Len(p)) = p

\* str.endswith
EndsWith(s, p) == Len(s) >= Len(p) /\ SubSeq(s, Len(s) - Len(p) + 1, Len(s)) = p

\* Python's `needle in hay` on strings
Contains(hay, needle) ==
    \E i \in 1..(Len(hay) - Len(needle) + 1) : SubSeq(hay, i, i + Len(needle) - 1) = needle

UpperLetters == "ABCDEFGHIJKLMNOPQRSTUVWXYZ"
LowerLetters == "abcdefghijklmnopqrstuvwxyz"

LowerChar(c) ==
    IF \E i \in 1..Len(UpperLetters) : CharAt(UpperLetters, i) = c
    THEN CharAt(LowerLetters, CHOOSE i \in 1..Len(UpperLetters) : CharAt(UpperLetters, i) = c)
    ELSE c

RECURSIVE LowerFrom(_, _)
LowerFrom(s, i) == IF i > Len(s) THEN "" ELSE LowerChar(CharAt(s, i)) \o LowerFrom(s, i + 1)

\* str.lower()
Lower(s) == LowerFrom(s, 1)

\* str.removesuffix
RemoveSuffix(s, suffix) ==
    IF suffix /= "" /\ EndsWith(s, suffix) THEN SubSeq(s, 1, Len(s) - Len(suffix)) ELSE s

\* sep.join(list)
RECURSIVE Join(_, _)
Join(sep, list) ==
    IF Len(list) = 0 THEN ""
    ELSE IF Len(list) = 1 THEN list[1]
    ELSE list[1] \o sep \o Join(sep, Tail(list))

(* ------------------- repr of a str and of a list[str] ----------------- *)

SingleQuote == "'"
DoubleQuote == "\""
Backslash == "\\"

\* the quote character repr(str) picks: double quotes only when the string
\* holds a single quote and no double quote
ReprQuote(s) ==
    IF Contains(s, SingleQuote) /\ ~Contains(s, DoubleQuote) THEN DoubleQuote ELSE SingleQuote

ReprChar(c, quote) ==
    IF c = Backslash \/ c = quote THEN Backslash \o c ELSE c

RECURSIVE ReprFrom(_, _, _)
ReprFrom(s, i, quote) ==
    IF i > Len(s) THEN "" ELSE ReprChar(CharAt(s, i), quote) \o ReprFrom(s, i + 1, quote)

\* repr(s) for a str
Repr(s) == ReprQuote(s) \o ReprFrom(s, 1, ReprQuote(s)) \o ReprQuote(s)

\* str(list), which f"{errors}" produces: the repr of every element
ReprList(list) == "[" \o Join(", ", [i \in 1..Len(list) |-> Repr(list[i])]) \o "]"

(* ------------------ consts/arguments, consts/environments ------------- *)

ARG_PROVIDER == "--provider"
ARG_NAME == "--name"
ARG_CLOUDFLARE_ZONE_ID == "--zone-id"

ENV_CLOUDFLARE_ZONE_ID == "CLOUDFLARE_ZONE_ID"
ENV_CLOUDFLARE_EMAIL == "CLOUDFLARE_EMAIL"
ENV_CLOUDFLARE_API_KEY == "CLOUDFLARE_API_KEY"
ENV_OVH_ENDPOINT == "OVH_ENDPOINT"
ENV_OVH_APPLICATION_KEY == "OVH_APPLICATION_KEY"
ENV_OVH_APPLICATION_SECRET == "OVH_APPLICATION_SECRET"
ENV_OVH_CONSUMER_KEY == "OVH_CONSUMER_KEY"

(* ------------------------- the inputs of a run ------------------------ *)

\* words of the command lines that are enumerated exhaustively
Tokens == {ARG_PROVIDER, ARG_NAME, "OVH", "A.b.Example.com"}

SeqsUpTo(S, n) == UNION {[1..k -> S] : k \in 0..n}

\* command lines for Cloudflare, with the zone id from the environment or
\* given as an argument
CloudflareArgLists ==
    { <<ARG_PROVIDER, "cloudflare", ARG_NAME, "Home.Example.com">>,
      <<ARG_NAME, "example.com", ARG_PROVIDER, "CloudFlare">>,
      <<ARG_PROVIDER, "cloudflare", ARG_NAME>>,
      <<ARG_PROVIDER, "cloudflare", ARG_NAME, ARG_PROVIDER>>,
      <<ARG_PROVIDER, "Cloudflare", ARG_NAME, "Example.com", ARG_CLOUDFLARE_ZONE_ID, "ZONE1">>,
      <<ARG_CLOUDFLARE_ZONE_ID, "ZONE1", ARG_NAME, "www.example.com", ARG_PROVIDER, "cloudflare">>,
      <<ARG_PROVIDER, "cloudflare", ARG_NAME, "example.com", ARG_CLOUDFLARE_ZONE_ID>>,
      <<ARG_PROVIDER, "cloudflare", ARG_NAME, "example.com", ARG_CLOUDFLARE_ZONE_ID, ARG_NAME>> }

\* command lines for OVH: names of two and three labels, a name with a
\* trailing dot and a name with an empty label; Tokens give a name of one
\* label ("OVH") and one of four
OvhArgLists ==
    { <<ARG_PROVIDER, "ovh", ARG_NAME, "example.com">>,
      <<ARG_NAME, "Sub.Example.com", ARG_PROVIDER, "OVH">>,
      <<ARG_PROVIDER, "ovh", ARG_NAME, "www.example.com.">>,
      <<ARG_PROVIDER, "ovh", ARG_NAME, "a..com">>,
      <<ARG_PROVIDER, "ovh", ARG_NAME, "A.b.Example.com">> }

\* sys.argv[1:]
ArgLists == SeqsUpTo(Tokens, MaxArgs) \cup CloudflareArgLists \cup OvhArgLists

\* sys.argv[0]: the script path as it was typed
Argv0s == {"main.py", "/opt/dns-updater/main.py"}

EnvNames ==
    { ENV_CLOUDFLARE_ZONE_ID, ENV_CLOUDFLARE_EMAIL, ENV_CLOUDFLARE_API_KEY,
      ENV_OVH_ENDPOINT, ENV_OVH_APPLICATION_KEY, ENV_OVH_APPLICATION_SECRET,
      ENV_OVH_CONSUMER_KEY }

\* os.environ after load_dotenv(): everything set, one name unset, or nothing set
Environs == {EnvNames, {}} \cup {EnvNames \ {n} : n \in EnvNames}

\* os.getenv(name) in an environment where the names of `env` are set
GetEnv(env, name) == IF name \in env THEN Some("value-of-" \o name) ELSE None

\* the A record the provider holds for the requested name, if any
Zones ==
    { None, Some([id |-> "101", content |-> "1.2.3.4"]), Some([id |-> "202", content |-> "5.6.7.8"]) }

\* what api.ipify.org may answer; "01.2.3.4" is 1.2.3.4 written differently
PublicIps == {"1.2.3.4", "5.6.7.8", "01.2.3.4"}

\* reasons a Cloudflare response may carry in its errors array
Reasons == {"invalid target", "can't", "a\\b", "bad \"x\" isn't"}
ErrorLists == SeqsUpTo(Reasons, MaxErrors)

\* a second A record of the same name, listed after the first
OtherRecord == [id |-> "303", content |-> "9.9.9.9"]

\* the name in the provider's own spelling, fully qualified with the last dot
StoredName(name) == name \o "."

(* -------------------- results of calls that may raise ----------------- *)

Ok(v) == [raised |-> FALSE, exc |-> "", val |-> v]
Raised(kind, msg) == [raised |-> TRUE, exc |-> kind, val |-> msg]

\* list.index(x): position of the first occurrence
Index(list, x) == CHOOSE i \in 1..Len(list) : list[i] = x /\ \A j \in 1..(i - 1) : list[j] /= x

\* x in list
In(x, list) == \E i \in 1..Len(list) : list[i] = x

(* ------------------------------ main.py ------------------------------- *)

\* main.get_provider
get_provider(args) ==
    IF In(ARG_PROVIDER, args)
    THEN IF Index(args, ARG_PROVIDER) + 1 > Len(args)
         THEN \* IndexError, turned into Exception by the except clause
              Raised("Exception", "You must provide a provider to update.")
         ELSE LET provider == Lower(args[Index(args, ARG_PROVIDER) + 1])
              IN  IF StartsWith(provider, "--")
                  THEN Raised("Exception",
                              "'" \o provider \o "' is not allowed for '" \o ARG_PROVIDER \o "' argument.")
                  ELSE Ok(provider)
    ELSE Raised("Exception", "You must provide a provider to update.")

(* --------------------- builders/environments/builders ----------------- *)

\* a _get_arg that accepts a value that looks like a flag: a mutant
get_arg_any_value(args, arg) ==
    IF Index(args, arg) + 1 > Len(args)
    THEN Raised("IndexError", "list index out of range")
    ELSE Ok(Lower(args[Index(args, arg) + 1]))

\* EnvironmentBuilder._get_arg; the caller has checked `arg in args`
get_arg(args, arg) ==
    IF Index(args, arg) + 1 > Len(args)
    THEN Raised("IndexError", "list index out of range")
    ELSE LET value == Lower(args[Index(args, arg) + 1])
         IN  IF StartsWith(value, "--")
             THEN Raised("Exception",
                         "'" \o value \o "' is not allowed for '" \o arg \o "' argument.")
             ELSE Ok(value)

\* EnvironmentBuilder.set_record_name: the value of _record_name, or the error
set_record_name(args) ==
    IF In(ARG_NAME, args)
    THEN LET r == get_arg(args, ARG_NAME)
         IN  IF r.raised /\ r.exc = "IndexError"
             THEN Raised("Exception", "You must provide a record name to update.")
             ELSE r
    ELSE Raised("Exception", "You must provide a record name to update.")

\* the names of the unset values, in the order they are appended to `errors`
Missing(names, values) == SelectSeq(names, LAMBDA n : \E i \in 1..Len(names) : names[i] = n /\ values[i] = None)

EnvironmentError(errors) == "Please set environment for: " \o Join(", ", errors) \o "."

\* CloudflareEnvironmentBuilder.set_authentication: <<zone_id, email, api_key>>
cloudflare_set_authentication(args, env) ==
    LET fromArg == get_arg(args, ARG_CLOUDFLARE_ZONE_ID)
        zone_id == IF In(ARG_CLOUDFLARE_ZONE_ID, args) THEN Some(fromArg.val)
                   ELSE GetEnv(env, ENV_CLOUDFLARE_ZONE_ID)
        values == <<zone_id, GetEnv(env, ENV_CLOUDFLARE_EMAIL), GetEnv(env, ENV_CLOUDFLARE_API_KEY)>>
        errors == Missing(<<ENV_CLOUDFLARE_ZONE_ID, ENV_CLOUDFLARE_EMAIL, ENV_CLOUDFLARE_API_KEY>>, values)
    IN  IF In(ARG_CLOUDFLARE_ZONE_ID, args) /\ fromArg.raised
        THEN IF fromArg.exc = "IndexError"
             THEN Raised("Exception", "You must provide a valid Cloudflare Zone ID.")
             ELSE fromArg
        ELSE IF Len(errors) > 0
             THEN Raised("EnvironmentError", EnvironmentError(errors))
             ELSE Ok([i \in 1..3 |-> values[i][1]])

\* OvhEnvironmentBuilder.set_authentication:
\* <<endpoint, application_key, application_secret, consumer_key>>
ovh_set_authentication(args, env) ==
    LET names == <<ENV_OVH_ENDPOINT, ENV_OVH_APPLICATION_KEY, ENV_OVH_APPLICATION_SECRET,
                   ENV_OVH_CONSUMER_KEY>>
        values == [i \in 1..4 |-> GetEnv(env, names[i])]
        errors == Missing(names, values)
    IN  IF Len(errors) > 0
        THEN Raised("EnvironmentError", EnvironmentError(errors))
        ELSE Ok([i \in 1..4 |-> values[i][1]])

(* -------------------- builders/environments/director ------------------ *)

\* EnvironmentDirector.make_cloudflare_environment / make_ovh_environment
make_environment(provider, args, env) ==
    LET name == set_record_name(args)
        auth == IF provider = "cloudflare" THEN cloudflare_set_authentication(args, env)
                ELSE ovh_set_authentication(args, env)
    IN  IF name.raised THEN name
        ELSE IF auth.raised THEN auth
        ELSE Ok([record_name |-> name.val, credentials |-> auth.val])

(* ----------------------- factories/providers/dtos --------------------- *)

RecordDTO(id, name, ip) == [id |-> id, name |-> name, ip |-> ip]
ResultUpdateDTO(state, reason) == [state |-> state, reason |-> reason]

(* ------------- values json.loads and the OVH client return ------------ *)

\* None, a str, a list of values, a dict as a list of key/value pairs
JNull == [type |-> "null", str |-> "", items |-> <<>>]
JStr(s) == [type |-> "str", str |-> s, items |-> <<>>]
JList(items) == [type |-> "list", str |-> "", items |-> items]
Pair(key, value) == [key |-> key, value |-> value]
JDict(pairs) == [type |-> "dict", str |-> "", items |-> pairs]

HasKey(v, key) == \E i \in 1..Len(v.items) : v.items[i].key = key
Lookup(v, key) == v.items[CHOOSE i \in 1..Len(v.items) : v.items[i].key = key].value

\* value[key] for a str key
GetKey(v, key) ==
    IF v.type = "dict"
    THEN IF HasKey(v, key) THEN Ok(Lookup(v, key)) ELSE Raised("KeyError", "'" \o key \o "'")
    ELSE IF v.type = "null"
    THEN Raised("TypeError", "'NoneType' object is not subscriptable")
    ELSE Raised("TypeError", v.type \o " indices must be integers")

\* value[0]
GetFirst(v) ==
    IF v.type = "list"
    THEN IF Len(v.items) > 0 THEN Ok(v.items[1]) ELSE Raised("IndexError", "list index out of range")
    ELSE IF v.type = "str"
    THEN IF Len(v.str) > 0 THEN Ok(JStr(CharAt(v.str, 1)))
         ELSE Raised("IndexError", "string index out of range")
    ELSE IF v.type = "dict"
    THEN Raised("KeyError", "0")
    ELSE Raised("TypeError", "'NoneType' object is not subscriptable")

\* len(value) of a str, a list or a dict
PyLen(v) == IF v.type = "str" THEN Len(v.str) ELSE Len(v.items)

(* --------------------- factories/providers/providers ------------------ *)

\* an except clause that lets the IndexError through: a mutant
cloudflare_index_error_propagates == Raised("IndexError", "list index out of range")

\* CloudflareProvider.get: except IndexError: return None
cloudflare_on_index_error == Ok(None)

\* data['result'][0][key]
cloudflare_field(data, key) ==
    LET result == GetKey(data, "result")
        first == IF result.raised THEN result ELSE GetFirst(result.val)
    IN  IF first.raised THEN first ELSE GetKey(first.val, key)

\* CloudflareProvider.get, from the parsed response body on
cloudflare_get(data) ==
    LET id == cloudflare_field(data, "id")
        name == cloudflare_field(data, "name")
        content == cloudflare_field(data, "content")
        failed == IF id.raised THEN id ELSE IF name.raised THEN name ELSE content
    IN  IF failed.raised
        THEN IF failed.exc = "IndexError" THEN cloudflare_on_index_error ELSE failed
        ELSE Ok(Some(RecordDTO(id.val.str, name.val.str, content.val.str)))

\* an index that takes the last id of the list: a mutant
last_id(record_id) ==
    IF record_id.type = "list" /\ Len(record_id.items) > 0
    THEN Ok(record_id.items[Len(record_id.items)])
    ELSE GetFirst(record_id)

\* OvhProvider.get: record_id[0]
first_id(record_id) == GetFirst(record_id)

\* OvhProvider.get: record_id is not None and len(record_id) > 0
ovh_has_ids(record_id) == record_id.type /= "null" /\ PyLen(record_id) > 0

\* OvhProvider.get, from the answer of the id query on; `detail` is the answer
\* of the second query, made only when there is an id
ovh_get(name, record_id, detail) ==
    IF ovh_has_ids(record_id)
    THEN LET first == first_id(record_id)
             target == GetKey(detail, "target")
         IN  IF first.raised THEN first
             ELSE IF target.raised THEN target
             ELSE Ok(Some(RecordDTO(first.val.str, name, target.val.str)))
    ELSE Ok(None)

\* an update that reports what went wrong: a mutant
ovh_update_reports(record, ip) == <<"invalid target">>

\* OvhProvider.update: return [] once client.put has returned
ovh_update(record, ip) == <<>>


RECURSIVE SplitFrom(_, _, _, _, _)
SplitFrom(s, sep, i, cur, acc) ==
    IF i > Len(s) THEN Append(acc, cur)
    ELSE IF CharAt(s, i) = sep THEN SplitFrom(s, sep, i + 1, "", Append(acc, cur))
    ELSE SplitFrom(s, sep, i + 1, cur \o CharAt(s, i), acc)

\* str.split(sep) for a one-character separator
Split(s, sep) == SplitFrom(s, sep, 1, "", <<>>)

\* a _get_zone_dns that keeps the last label only: a mutant
get_zone_dns_last_label(name) ==
    LET split_name == Split(name, ".")
    IN  split_name[Len(split_name)]

\* a _get_subdomain that keeps the first label only: a mutant
get_subdomain_first_label(name) ==
    LET split_name == Split(name, ".")
    IN  IF Len(split_name) > 2 THEN split_name[1] ELSE ""

\* OvhProvider._get_zone_dns
get_zone_dns(name) ==
    LET split_name == Split(name, ".")
    IN  IF Len(split_name) > 2
        THEN Join(".", SubSeq(split_name, Len(split_name) - 1, Len(split_name)))
        ELSE Join(".", split_name)

\* OvhProvider._get_subdomain
get_subdomain(name) ==
    LET split_name == Split(name, ".")
    IN  IF Len(split_name) > 2
        THEN Join(".", SubSeq(split_name, 1, Len(split_name) - 2))
        ELSE ""

\* OvhProvider.get / OvhProvider.update: the locals zone_dns and subdomain,
\* computed from the name before anything is sent
ovh_locals(op, name) ==
    [op |-> op, name |-> name, zone_dns |-> get_zone_dns(name), subdomain |-> get_subdomain(name)]

\* one element of "result" in the body Cloudflare answers with
CloudflareRecord(r, name) ==
    JDict(<<Pair("id", JStr(r.id)), Pair("name", JStr(name)), Pair("content", JStr(r.content))>>)

\* the bodies Cloudflare may answer the GET with when its record is z: the
\* matches; a match without content; "result": null, as in an error envelope;
\* "result": ""; no "result" at all
CloudflareAnswers(z, name) ==
    (IF z = None
     THEN << JDict(<<Pair("result", JList(<<>>))>>) >>
     ELSE << JDict(<<Pair("result", JList(<<CloudflareRecord(z[1], name)>>))>>),
             JDict(<<Pair("result", JList(<<CloudflareRecord(z[1], StoredName(name)),
                                            CloudflareRecord(OtherRecord, StoredName(name))>>))>>),
             JDict(<<Pair("result", JList(<<JDict(<<Pair("id", JStr(z[1].id)),
                                                    Pair("name", JStr(name))>>)>>))>>) >>)
    \o << JDict(<<Pair("result", JNull)>>),
          JDict(<<Pair("result", JStr(""))>>),
          JDict(<<>>) >>

\* what the OVH client may return for the id query: the ids, None, or {}
OvhIdAnswers(z) ==
    (IF z = None
     THEN << JList(<<>>) >>
     ELSE << JList(<<JStr(z[1].id)>>), JList(<<JStr(z[1].id), JStr(OtherRecord.id)>>) >>)
    \o << JNull, JDict(<<>>) >>

\* what the OVH client may return for the record's detail
OvhDetailAnswers(z) ==
    << JDict(<<Pair("id", JStr(z[1].id)), Pair("target", JStr(z[1].content))>>),
       JDict(<<Pair("id", JStr(z[1].id))>>) >>

\* an HTTP request put on the wire
Request(method, url, body) == [method |-> method, url |-> url, body |-> body]

\* the request of CloudflareProvider.get
CloudflareGetRequest(zone_id, name) ==
    Request("GET", "/client/v4/zones/" \o zone_id \o "/dns_records?type=A&name=" \o name, "")

\* the request of CloudflareProvider.update
CloudflarePatchRequest(zone_id, record, ip) ==
    Request("PATCH", "/client/v4/zones/" \o zone_id \o "/dns_records/" \o record.id,
            "{\n \"content\": \"" \o ip \o "\" \n}")

\* the two requests of OvhProvider.get: the id list, then the record's detail
OvhListRequest(name) ==
    Request("GET", "/v1/domain/zone/" \o get_zone_dns(name) \o "/record?fieldType=A&subDomain="
                   \o get_subdomain(name), "")

OvhDetailRequest(name, id) ==
    Request("GET", "/v1/domain/zone/" \o get_zone_dns(name) \o "/record/" \o id, "")

\* the request of OvhProvider.update
OvhPutRequest(record, ip) ==
    Request("PUT", "/v1/domain/zone/" \o get_zone_dns(record.name) \o "/record/" \o record.id,
            "subDomain=" \o get_subdomain(record.name) \o "&target=" \o ip)

\* the request of ProviderCreator._get_public_ip
IpifyRequest == Request("GET", "https://api.ipify.org", "")

\* the first request provider.get sends
FirstGetRequest(p, env, name) ==
    IF p = "cloudflare" THEN CloudflareGetRequest(env.credentials[1], name) ELSE OvhListRequest(name)

IsWrite(request) == request.method \in {"PATCH", "PUT"}

(* --------------------- factories/providers/creators ------------------- *)

\* a comparison that always asks for an update: a mutant
ip_changed_always(record_ip, public_ip) == TRUE

\* a comparison that never asks for an update: a mutant
ip_changed_never(record_ip, public_ip) == FALSE

\* record.get_ip() != public_ip
ip_changed(record_ip, public_ip) == record_ip /= public_ip

NotFoundMessage(name) == "Record '" \o name \o "' not found."

\* a message that leaves the reasons out: a mutant
UpdateFailedMessageNoReasons(name, errors) == "Record update failed for " \o name \o "."

UpdateFailedMessage(name, errors) ==
    "Record update failed for " \o name \o " with these reasons: " \o ReprList(errors) \o "."

UpdatedReason(name) == "Record updated successful for '" \o name \o "'."
NotUpdatedReason(name) == "Record not updated for '" \o name \o "' because hasn't changed."

(* ----------------------------- utils/logger --------------------------- *)

\* one Logger call: one record in the log file and one line on the screen
Logger_info(entries, message) == Append(entries, [level |-> "INFO", message |-> message])
Logger_error(entries, message) == Append(entries, [level |-> "ERROR", message |-> message])

(* ------------------------------- state -------------------------------- *)

VARIABLES
    pc,             \* where the run is: set_logger, get_provider, make_environment,
                    \* get, public_ip, update, done
    argv0,          \* sys.argv[0]
    args,           \* sys.argv[1:]
    zone,           \* the provider's A record for the requested name, or None
    zone_at_start,  \* zone as it was when the process started
    environ,        \* the names set in os.environ once load_dotenv() has run
    provider,       \* main's `provider`
    environment,    \* main's `environment`: record name and credentials
    record,         \* updateIfChanged's `record`
    public_ip,      \* updateIfChanged's `public_ip`
    errors,         \* updateIfChanged's `errors`
    update_result,  \* main's `update_result`
    error,          \* the exception that ended the run
    log,            \* the Logger calls made, in order
    exit_code,      \* the process exit status, -1 while running
    calls,          \* provider.get, _get_public_ip and provider.update invocations
    requests,       \* the HTTP requests that left the machine, in order
    responses,      \* what provider.get was answered, in order
    derived,        \* OvhProvider's locals zone_dns and subdomain, one entry per call
    history         \* how the invocation before this one ended, if there was one

vars == <<pc, argv0, args, zone, zone_at_start, environ, provider, environment, record,
          public_ip, errors, update_result, error, log, exit_code, calls, requests,
          responses, derived, history>>

inputs == <<argv0, args, zone_at_start>>

\* one invocation: what was called, with which record and argument, and whether
\* it raised, returned None ("none") or returned a value ("returned")
Call(op, rec, arg, outcome) == [op |-> op, record |-> rec, arg |-> arg, outcome |-> outcome]

Init ==
    /\ pc = "set_logger"
    /\ argv0 \in Argv0s
    /\ args \in ArgLists
    /\ zone \in Zones
    /\ zone_at_start = zone
    /\ environ = None
    /\ provider = None
    /\ environment = None
    /\ record = None
    /\ public_ip = None
    /\ errors = None
    /\ update_result = None
    /\ error = None
    /\ log = <<>>
    /\ exit_code = -1
    /\ calls = <<>>
    /\ requests = <<>>
    /\ responses = <<>>
    /\ derived = <<>>
    /\ history = <<>>

(* ---------------------- how a run comes to its end -------------------- *)

\* an except clause that logs the error and forgets exit(1): a mutant
raise_without_exit(message) ==
    /\ error' = Some(message)
    /\ log' = Logger_error(log, message)
    /\ exit_code' = 0
    /\ pc' = "done"

\* main.py's except clause: Logger.error(str(error)); exit(1)
Raise(message) ==
    /\ error' = Some(message)
    /\ log' = Logger_error(log, message)
    /\ exit_code' = 1
    /\ pc' = "done"

\* an exception outside the try block: the interpreter prints the traceback
\* and exits with status 1
Uncaught(message) ==
    /\ error' = Some(message)
    /\ log' = log
    /\ exit_code' = 1
    /\ pc' = "done"

\* updateIfChanged returns; main logs the reason and runs off its end
Return(result) ==
    /\ update_result' = Some(result)
    /\ log' = Logger_info(log, result.reason)
    /\ error' = error
    /\ exit_code' = 0
    /\ pc' = "done"

(* ------------------------------ the steps ----------------------------- *)

\* main.set_logger: the log directory is argv[0] without "/main.py", plus "/logs"
SetLogger ==
    /\ pc = "set_logger"
    /\ LET exec_path == RemoveSuffix(argv0, "/main.py")
           log_path == exec_path \o "/logs"
       IN  \/ \* the directory is there or can be made, and the log file opens
              /\ exec_path /= argv0
              /\ pc' = "get_provider"
              /\ UNCHANGED <<error, log, exit_code>>
           \/ \* nothing was stripped, so exec_path is the script file itself and
              \* os.mkdir fails; or the directory or the log file cannot be made
              Uncaught(IF exec_path = argv0
                       THEN "NotADirectoryError: [Errno 20] Not a directory: '" \o log_path \o "'"
                       ELSE "PermissionError: [Errno 13] Permission denied: '" \o log_path \o "'")
    /\ UNCHANGED <<inputs, zone, environ, provider, environment, record, public_ip,
                   errors, update_result, calls, requests, responses, derived, history>>

\* main: provider = get_provider(args)
GetProvider ==
    /\ pc = "get_provider"
    /\ LET r == get_provider(args)
       IN  IF r.raised
           THEN Raise(r.val) /\ provider' = provider
           ELSE /\ provider' = Some(r.val)
                /\ pc' = "make_environment"
                /\ UNCHANGED <<error, log, exit_code>>
    /\ UNCHANGED <<inputs, zone, environ, environment, record, public_ip, errors,
                   update_result, calls, requests, responses, derived, history>>

UnknownProviderMessage(p) ==
    "You must provide a valid provider to update, or " \o p \o " is not covered yet."

\* main: the provider dispatch, the director and the creator's construction
MakeEnvironment ==
    /\ pc = "make_environment"
    /\ IF provider[1] \notin {"cloudflare", "ovh"}
       THEN Raise(UnknownProviderMessage(provider[1])) /\ UNCHANGED <<environ, environment>>
       ELSE \E env \in Environs :
                LET r == make_environment(provider[1], args, env)
                IN  /\ environ' = IF set_record_name(args).raised THEN environ ELSE Some(env)
                    /\ IF r.raised
                       THEN Raise(r.val) /\ environment' = environment
                       ELSE /\ environment' = Some(r.val)
                            /\ pc' = "get"
                            /\ UNCHANGED <<error, log, exit_code>>
    /\ UNCHANGED <<inputs, zone, provider, record, public_ip, errors, update_result, calls,
                   requests, responses, derived, history>>

\* what updateIfChanged does when provider.get returned None, were it to
\* report "unchanged" instead of failing: a mutant
on_record_missing_unchanged(name) ==
    Return(ResultUpdateDTO(FALSE, NotUpdatedReason(name)))

\* updateIfChanged: if record is None: raise
on_record_missing(name) ==
    Raise(NotFoundMessage(name)) /\ update_result' = update_result

\* a fetch that answers from the snapshot of the invocation before: a mutant
fetched_from_cache(current, earlier) == earlier

\* record = provider.get(name): every invocation asks the provider, which
\* answers from the record it holds now
fetched(current, earlier) == current

\* the provider's record as the invocation before this one found it
LastZone == IF history = <<>> THEN zone ELSE history[1].zone_at_start

\* updateIfChanged: what follows record = provider.get(name)
GetReturns(name, result) ==
    /\ calls' = Append(calls, Call("get", None, name,
                                   IF result.raised THEN "raised"
                                   ELSE IF result.val = None THEN "none" ELSE "returned"))
    /\ IF result.raised
       THEN Raise(result.val) /\ UNCHANGED <<record, update_result>>
       ELSE IF result.val = None
       THEN on_record_missing(name) /\ record' = record
       ELSE /\ record' = result.val
            /\ pc' = "public_ip"
            /\ UNCHANGED <<error, log, exit_code, update_result>>

\* updateIfChanged: provider = self._make(); record = provider.get(name)
Get ==
    /\ pc = "get"
    /\ LET name == environment[1].record_name
           p == provider[1]
           seen == fetched(zone, LastZone)
           first == FirstGetRequest(p, environment[1], name)
       IN  /\ derived' = IF p = "ovh" THEN Append(derived, ovh_locals("get", name)) ELSE derived
           /\ \/ \* the connection cannot be opened: nothing is sent
                 /\ requests' = requests
                 /\ responses' = responses
                 /\ GetReturns(name, Raised("ConnectionError", "ConnectionError"))
              \/ \* the request is sent; the answer cannot be read or parsed, or
                 \* (OVH) is an error status the client raises on
                 /\ requests' = Append(requests, first)
                 /\ responses' = responses
                 /\ GetReturns(name, Raised("Exception",
                                            "the response of the provider could not be read"))
              \/ \* Cloudflare answers with a JSON body
                 /\ p = "cloudflare"
                 /\ \E i \in 1..Len(CloudflareAnswers(seen, name)) :
                        LET data == CloudflareAnswers(seen, name)[i]
                        IN  /\ requests' = Append(requests, first)
                            /\ responses' = Append(responses, data)
                            /\ GetReturns(name, cloudflare_get(data))
              \/ \* OVH answers the id query; with an id the detail query follows
                 /\ p = "ovh"
                 /\ \E i \in 1..Len(OvhIdAnswers(seen)) :
                        LET record_id == OvhIdAnswers(seen)[i]
                            asks == ovh_has_ids(record_id) /\ ~first_id(record_id).raised
                            second == OvhDetailRequest(name, first_id(record_id).val.str)
                        IN  IF ~asks
                            THEN /\ requests' = Append(requests, first)
                                 /\ responses' = Append(responses, record_id)
                                 /\ GetReturns(name, ovh_get(name, record_id, JNull))
                            ELSE /\ requests' = requests \o <<first, second>>
                                 /\ \/ /\ responses' = Append(responses, record_id)
                                       /\ GetReturns(name, Raised("Exception",
                                              "the response of the provider could not be read"))
                                    \/ \E j \in 1..Len(OvhDetailAnswers(seen)) :
                                           LET detail == OvhDetailAnswers(seen)[j]
                                           IN  /\ responses' = responses \o <<record_id, detail>>
                                               /\ GetReturns(name, ovh_get(name, record_id, detail))
    /\ UNCHANGED <<inputs, zone, environ, provider, environment, public_ip, errors, history>>

\* a lookup made once for the comparison and once more for the update: a mutant
public_ip_calls_twice(outcome) ==
    <<Call("public_ip", None, "", outcome), Call("public_ip", None, "", outcome)>>

\* updateIfChanged: the one call of self._get_public_ip()
public_ip_calls(outcome) == <<Call("public_ip", None, "", outcome)>>

\* updateIfChanged: public_ip = self._get_public_ip(), then the comparison
GetPublicIp ==
    /\ pc = "public_ip"
    /\ \/ \* requests.get raises before anything is sent
          /\ calls' = calls \o public_ip_calls("raised")
          /\ requests' = requests
          /\ Raise("ConnectionError")
          /\ UNCHANGED <<public_ip, update_result>>
       \/ \* the body is not UTF-8
          /\ calls' = calls \o public_ip_calls("raised")
          /\ requests' = Append(requests, IpifyRequest)
          /\ Raise("UnicodeDecodeError")
          /\ UNCHANGED <<public_ip, update_result>>
       \/ \E ip \in PublicIps :
              /\ calls' = calls \o public_ip_calls("returned")
              /\ requests' = Append(requests, IpifyRequest)
              /\ public_ip' = Some(ip)
              /\ IF ip_changed(record[1].ip, ip)
                 THEN /\ pc' = "update"
                      /\ UNCHANGED <<error, log, exit_code, update_result>>
                 ELSE Return(ResultUpdateDTO(FALSE, NotUpdatedReason(environment[1].record_name)))
    /\ UNCHANGED <<inputs, zone, environ, provider, environment, record, errors, responses,
                   derived, history>>

\* an update call that passes the stored address instead of the new one: a mutant
update_call_old_ip(rec, ip) == Call("update", Some(rec), rec.ip, "")

\* updateIfChanged: provider.update(record, public_ip)
update_call(rec, ip) == Call("update", Some(rec), ip, "")

\* the request provider.update sends for a call
UpdateRequest(p, env, call) ==
    IF p = "cloudflare" THEN CloudflarePatchRequest(env.credentials[1], call.record[1], call.arg)
    ELSE OvhPutRequest(call.record[1], call.arg)

\* the provider's zone once it has applied a write for record `id`
Applied(z, id, ip) ==
    IF z /= None /\ z[1].id = id THEN Some([z[1] EXCEPT !.content = ip]) ELSE z

\* an error check that lets every error list pass: a mutant
update_failed_never(errs) == FALSE

\* updateIfChanged: len(errors) != 0
update_failed(errs) == Len(errs) /= 0

\* updateIfChanged: the update branch
Update ==
    /\ pc = "update"
    /\ LET name == environment[1].record_name
           call == update_call(record[1], public_ip[1])
           request == UpdateRequest(provider[1], environment[1], call)
       IN  /\ derived' = IF provider[1] = "ovh"
                         THEN Append(derived, ovh_locals("update", call.record[1].name))
                         ELSE derived
           /\ \/ \* the connection cannot be opened: nothing is sent
                 /\ calls' = Append(calls, [call EXCEPT !.outcome = "raised"])
                 /\ requests' = requests
                 /\ zone' = zone
                 /\ Raise("ConnectionError")
                 /\ UNCHANGED <<errors, update_result>>
              \/ \* the write is sent; the provider applies it or not, and its answer
                 \* is lost, unreadable or (OVH) an error status the client raises on
                 /\ calls' = Append(calls, [call EXCEPT !.outcome = "raised"])
                 /\ requests' = Append(requests, request)
                 /\ \E applied \in BOOLEAN :
                        zone' = IF applied THEN Applied(zone, call.record[1].id, call.arg) ELSE zone
                 /\ Raise("the response of the provider could not be read")
                 /\ UNCHANGED <<errors, update_result>>
              \/ \* the write is sent and answered: Cloudflare has applied it and
                 \* answers "errors": []; OvhProvider.update returns [] once
                 \* client.put has returned, whether the zone took the change or not
                 /\ calls' = Append(calls, [call EXCEPT !.outcome = "returned"])
                 /\ requests' = Append(requests, request)
                 /\ \E applied \in (IF provider[1] = "ovh" THEN BOOLEAN ELSE {TRUE}) :
                        zone' = IF applied THEN Applied(zone, call.record[1].id, call.arg) ELSE zone
                 /\ LET errs == IF provider[1] = "ovh" THEN ovh_update(call.record[1], call.arg)
                                 ELSE <<>>
                    IN  /\ errors' = Some(errs)
                        /\ IF update_failed(errs)
                           THEN Raise(UpdateFailedMessage(name, errs))
                                /\ update_result' = update_result
                           ELSE Return(ResultUpdateDTO(TRUE, UpdatedReason(name)))
              \/ \* Cloudflare refuses the write and names its reasons
                 /\ provider[1] = "cloudflare"
                 /\ calls' = Append(calls, [call EXCEPT !.outcome = "returned"])
                 /\ requests' = Append(requests, request)
                 /\ zone' = zone
                 /\ \E errs \in ErrorLists \ {<<>>} :
                        /\ errors' = Some(errs)
                        /\ IF update_failed(errs)
                           THEN Raise(UpdateFailedMessage(name, errs))
                                /\ update_result' = update_result
                           ELSE Return(ResultUpdateDTO(TRUE, UpdatedReason(name)))
    /\ UNCHANGED <<inputs, environ, provider, environment, record, public_ip, responses,
                   history>>

\* the number of this invocation
Run == IF history = <<>> THEN 1 ELSE history[1].run + 1

\* how the invocation that has ended went, as the next one may find it;
\* `settled` is the IP that an update of this or of an earlier invocation
\* wrote and the provider applied, and that every invocation since has
\* resolved again
RunSummary ==
    [ run |-> Run,
      changed |-> update_result /= None /\ update_result[1].state,
      ip |-> public_ip,
      zone_at_start |-> zone_at_start,
      settled |-> IF /\ update_result /= None /\ update_result[1].state
                     /\ zone /= None /\ zone[1].content = public_ip[1]
                  THEN public_ip
                  ELSE IF /\ history /= <<>> /\ history[1].settled /= None
                          /\ public_ip \in {None, history[1].settled}
                  THEN history[1].settled
                  ELSE None ]

\* the same command line is run again, as a fresh process: nothing of the
\* invocation before is kept but what the provider holds
NextRun ==
    /\ pc = "done"
    /\ Run < MaxRuns
    /\ history' = <<RunSummary>>
    /\ pc' = "set_logger"
    /\ zone_at_start' = zone
    /\ environ' = None
    /\ provider' = None
    /\ environment' = None
    /\ record' = None
    /\ public_ip' = None
    /\ errors' = None
    /\ update_result' = None
    /\ error' = None
    /\ log' = <<>>
    /\ exit_code' = -1
    /\ calls' = <<>>
    /\ requests' = <<>>
    /\ responses' = <<>>
    /\ derived' = <<>>
    /\ UNCHANGED <<argv0, args, zone>>

Next == SetLogger \/ GetProvider \/ MakeEnvironment \/ Get \/ GetPublicIp \/ Update

Spec == Init /\ [][Next]_vars

\* the command lines that are run more than once
RepeatedArgLists ==
    { <<ARG_PROVIDER, "cloudflare", ARG_NAME, "Home.Example.com">>,
      <<ARG_PROVIDER, "ovh", ARG_NAME, "A.b.Example.com">> }

RunsInit == Init /\ args \in RepeatedArgLists

RunsNext == Next \/ NextRun

\* invocations in a row, as a scheduler starts them
SpecRuns == RunsInit /\ [][RunsNext]_vars

(* --------------------------- what a run did --------------------------- *)

Done == pc = "done"

CallsOf(op) == SelectSeq(calls, LAMBDA c : c.op = op)
Count(op) == Len(CallsOf(op))
Writes == SelectSeq(requests, IsWrite)

\* provider.get returned a record and the IP lookup returned an address
Compared == record /= None /\ public_ip /= None

HasOutcome == update_result /= None
Changed == HasOutcome /\ update_result[1].state
Unchanged == HasOutcome /\ ~update_result[1].state

\* some call of `op` ended with `outcome`
Ended(op, outcome) == \E i \in 1..Len(calls) : calls[i].op = op /\ calls[i].outcome = outcome

(* ------------------------------- claims ------------------------------- *)

\* C1: when the fetched record's IP is string-equal to the resolved public IP,
\* update is never invoked, no write request is sent, the provider's record
\* stays as it was, and the run returns an outcome with changed = false.
C1_EqualIpsNoUpdate ==
    (Compared /\ record[1].ip = public_ip[1]) =>
        /\ Done
        /\ Count("update") = 0
        /\ Writes = <<>>
        /\ zone = zone_at_start
        /\ Unchanged
        /\ update_result[1].reason = NotUpdatedReason(environment[1].record_name)

C1_Witness ==
    Done /\ Compared /\ record[1].ip = public_ip[1] /\ Unchanged

\* C2: when the fetched record's IP differs from the resolved public IP as a
\* string (no normalisation: "01.2.3.4" differs from "1.2.3.4"), the run
\* invokes update exactly once, with the resolved public IP and with the record
\* that the fetch of this run returned; a write that is sent carries that
\* record's identifier and that IP.
C2_DifferentIpsOneUpdate ==
    (Compared /\ record[1].ip /= public_ip[1]) =>
        /\ pc \in {"update", "done"}
        /\ pc = "update" => Count("update") = 0
        /\ Done =>
             /\ Count("update") = 1
             /\ CallsOf("update")[1].arg = public_ip[1]
             /\ CallsOf("update")[1].record = record
             /\ record[1].id = zone_at_start[1].id
             /\ Len(Writes) <= 1
             /\ \A i \in 1..Len(Writes) :
                    /\ EndsWith(Writes[i].url, "/" \o record[1].id)
                    /\ Writes[i] = UpdateRequest(provider[1], environment[1],
                                                 Call("update", record, public_ip[1], ""))

C2_Witness ==
    /\ Done /\ Compared
    /\ record[1].ip = "1.2.3.4" /\ public_ip[1] = "01.2.3.4"
    /\ Count("update") = 1 /\ Len(Writes) = 1

\* C3: when provider.get returns None, updateIfChanged fails with the "not
\* found" error, never invokes the IP lookup or update, sends no write and
\* returns no outcome.
C3_NotFoundFails ==
    Ended("get", "none") =>
        /\ Done
        /\ error = Some(NotFoundMessage(environment[1].record_name))
        /\ Contains(error[1], "not found")
        /\ Count("public_ip") = 0
        /\ Count("update") = 0
        /\ Writes = <<>>
        /\ ~HasOutcome
        /\ exit_code = 1

C3_Witness ==
    Done /\ Ended("get", "none") /\ error /= None /\ zone_at_start = None

\* a reason that repr() writes as it is: no backslash and not both kinds of quote
Verbatim(reason) ==
    /\ ~Contains(reason, Backslash)
    /\ ~(Contains(reason, SingleQuote) /\ Contains(reason, DoubleQuote))

UpdateReturnedErrors == errors /= None /\ Len(errors[1]) /= 0

C5_OutcomeMatchesUpdate ==
    /\ HasOutcome =>
         /\ Done
         /\ update_result[1].state <=>
                (Count("update") = 1 /\ Ended("update", "returned") /\ errors = Some(<<>>))
         /\ ~update_result[1].state <=> Count("update") = 0
    /\ (\/ Ended("get", "raised") \/ Ended("get", "none")
        \/ Ended("public_ip", "raised")
        \/ Ended("update", "raised") \/ UpdateReturnedErrors) => ~HasOutcome

C5_Witness ==
    Done /\ Changed /\ Count("update") = 1 /\ errors = Some(<<>>)

\* the three ways a run may end
EndUnchanged ==
    /\ Unchanged /\ error = None /\ exit_code = 0
    /\ Compared /\ record[1].ip = public_ip[1]
    /\ Writes = <<>> /\ zone = zone_at_start

EndUpdated ==
    /\ Changed /\ error = None /\ exit_code = 0
    /\ Compared /\ record[1].ip /= public_ip[1]
    /\ Len(Writes) = 1

EndAborted == error /= None /\ ~HasOutcome /\ exit_code = 1

ExactlyOneEnd ==
    /\ EndUnchanged \/ EndUpdated \/ EndAborted
    /\ ~(EndUnchanged /\ EndUpdated) /\ ~(EndUnchanged /\ EndAborted) /\ ~(EndUpdated /\ EndAborted)

\* C6 as stated: every run ends record-unchanged with no write sent, or
\* record-updated with a write sent and changed = true returned, or aborted
\* with a fatal error; and whenever a write request was sent, the run reports
\* changed = true or the record at the provider was not modified.
C6_WriteSentMeansChangedOrUnmodified ==
    Done =>
        /\ ExactlyOneEnd
        /\ Writes /= <<>> => (Changed \/ zone = zone_at_start)

\* C6 amended: every run ends in exactly one of the three states; whenever a
\* write request was sent, the run reports changed = true or aborts with a
\* fatal error, and in the aborted run the record at the provider may already
\* be modified; the record is never modified by a run that sent no write.
C6_WriteSentMeansChangedOrAborted ==
    /\ Done =>
         /\ ExactlyOneEnd
         /\ Writes /= <<>> => (Changed \/ EndAborted)
    /\ zone /= zone_at_start => Writes /= <<>>

C6_Witness ==
    Done /\ EndAborted /\ Len(Writes) = 1 /\ zone /= zone_at_start

Ops == [i \in 1..Len(calls) |-> calls[i].op]
IsPrefix(a, b) == Len(a) <= Len(b) /\ SubSeq(b, 1, Len(a)) = a
CallOrder == <<"get", "public_ip", "update">>

\* the requests on the wire follow the same order: the fetch's GETs, the IP
\* lookup's GET, the write
RequestsInOrder ==
    \A i, j \in 1..Len(requests) :
        i < j => /\ ~IsWrite(requests[i])
                 /\ requests[i] = IpifyRequest => IsWrite(requests[j])

\* C7 as stated, read in its most favourable way, for the invocations that
\* reach updateIfChanged: the run performs one IP lookup, one record fetch and
\* at most one update, the fetch before the lookup and the lookup before the
\* update, none of them twice.
C7_OneFetchOneLookup ==
    (Done /\ environment /= None) =>
        /\ Count("get") = 1
        /\ Count("public_ip") = 1
        /\ Count("update") <= 1
        /\ IsPrefix(Ops, CallOrder)

\* C7 amended: every process invocation performs at most one record fetch, at
\* most one IP lookup and at most one update, in that order and none of them
\* twice; a call is made only after every earlier call has returned a value; a
\* run that returns an outcome has performed exactly one fetch and exactly one
\* IP lookup.
C7_AtMostOnceInOrder ==
    /\ IsPrefix(Ops, CallOrder)
    /\ \A i \in 1..(Len(calls) - 1) : calls[i].outcome = "returned"
    /\ RequestsInOrder
    /\ HasOutcome => (Count("get") = 1 /\ Count("public_ip") = 1)

C7_Witness ==
    Done /\ Ops = CallOrder /\ Len(requests) >= 3

\* C8: the exit code is 0 exactly when updateIfChanged returned an outcome, and
\* non-zero for every run in which an error was raised; while the run goes on
\* there is no exit code.
C8_ExitCode ==
    /\ Done =>
         /\ exit_code \in {0, 1}
         /\ exit_code = 0 <=> HasOutcome
         /\ error /= None => exit_code /= 0
         /\ error /= None \/ HasOutcome
    /\ ~Done => (exit_code = -1 /\ error = None /\ ~HasOutcome)

C8_Witness ==
    Done /\ exit_code = 0 /\ Unchanged /\ Count("public_ip") = 1

\* C9: once a step of the run raises, no further external call is made, the
\* error is logged exactly once at error level and the run ends with a failure
\* status; a run that succeeds logs exactly one entry, the outcome's reason,
\* at info level.
C9_ErrorLoggedOnce ==
    /\ \A i \in 1..(Len(calls) - 1) : calls[i].outcome = "returned"
    /\ error /= None =>
         /\ Done
         /\ log = <<[level |-> "ERROR", message |-> error[1]]>>
         /\ exit_code = 1
    /\ HasOutcome =>
         /\ Done
         /\ log = <<[level |-> "INFO", message |-> update_result[1].reason]>>
    /\ ~Done => log = <<>>

\* the value that follows the first occurrence of `arg`, if there is one
HasValue(arg) == In(arg, args) /\ Index(args, arg) + 1 <= Len(args)
ValueOf(arg) == args[Index(args, arg) + 1]

BadProviderArgument ==
    \/ ~In(ARG_PROVIDER, args)
    \/ ~HasValue(ARG_PROVIDER)
    \/ StartsWith(ValueOf(ARG_PROVIDER), "--")
    \/ Lower(ValueOf(ARG_PROVIDER)) \notin {"cloudflare", "ovh"}

BadNameArgument ==
    \/ ~In(ARG_NAME, args)
    \/ ~HasValue(ARG_NAME)
    \/ StartsWith(ValueOf(ARG_NAME), "--")

\* a credential the chosen provider needs is set nowhere
CredentialUnset ==
    /\ environ /= None
    /\ provider /= None
    /\ \/ /\ provider[1] = "ovh"
          /\ \E n \in {ENV_OVH_ENDPOINT, ENV_OVH_APPLICATION_KEY, ENV_OVH_APPLICATION_SECRET,
                       ENV_OVH_CONSUMER_KEY} : n \notin environ[1]
       \/ /\ provider[1] = "cloudflare"
          /\ \/ ENV_CLOUDFLARE_EMAIL \notin environ[1]
             \/ ENV_CLOUDFLARE_API_KEY \notin environ[1]
             \/ (ENV_CLOUDFLARE_ZONE_ID \notin environ[1] /\ ~In(ARG_CLOUDFLARE_ZONE_ID, args))

\* C10: a run whose provider argument is absent, has no value, has a value
\* that starts with "--" or names no supported provider, or whose record-name
\* argument is absent, has no value or has a value that starts with "--", or
\* that lacks a required credential, fails without a fetch, an IP lookup or an
\* update; the record name that reaches the fetch is the lower-cased argument.
C10_MalformedInputRejected ==
    /\ (BadProviderArgument \/ BadNameArgument \/ CredentialUnset) =>
         /\ calls = <<>> /\ requests = <<>>
         /\ environment = None
         /\ pc \in {"set_logger", "get_provider", "make_environment", "done"}
         /\ Done => (error /= None /\ exit_code = 1 /\ ~HasOutcome)
    /\ \A i \in 1..Len(calls) :
         calls[i].op = "get" =>
             /\ calls[i].arg = Lower(ValueOf(ARG_NAME))
             /\ Lower(calls[i].arg) = calls[i].arg
             /\ ~StartsWith(calls[i].arg, "--")

C10_Witness ==
    /\ Done /\ CredentialUnset /\ ~BadProviderArgument /\ ~BadNameArgument
    /\ error /= None /\ calls = <<>>

\* a mixed-case record name reaches the fetch in lower case
C10_LowerCasedReached ==
    /\ HasValue(ARG_NAME) /\ ValueOf(ARG_NAME) = "A.b.Example.com"
    /\ Count("get") = 1 /\ calls[1].arg = "a.b.example.com"

\* the positions of the dots of a name
Dots(name) == {i \in 1..Len(name) : CharAt(name, i) = "."}

\* the dot in front of the last two labels; 0 when the name has fewer than
\* three labels
Cut(name) ==
    IF Cardinality(Dots(name)) >= 2
    THEN CHOOSE i \in Dots(name) : Cardinality({j \in Dots(name) : j > i}) = 1
    ELSE 0

LastTwoLabels(name) == IF Cut(name) = 0 THEN name ELSE SubSeq(name, Cut(name) + 1, Len(name))
PrecedingLabels(name) == IF Cut(name) <= 1 THEN "" ELSE SubSeq(name, 1, Cut(name) - 1)

\* C11: for every record name the OVH provider works on, the zone is the last
\* two dot-separated labels of the name and the subdomain is all the labels
\* before them, joined by dots; a name of two labels is its own zone, with the
\* empty subdomain; "a.b.example.com" gives zone "example.com" and subdomain
\* "a.b", "example.com" gives zone "example.com" and subdomain ""; the id
\* query is sent with that zone and that subdomain.
C11_ZoneIsLastTwoLabels ==
    /\ \A i \in 1..Len(derived) :
           LET d == derived[i]
           IN  /\ d.zone_dns = LastTwoLabels(d.name)
               /\ d.subdomain = PrecedingLabels(d.name)
               /\ Cardinality(Dots(d.name)) = 1 => (d.zone_dns = d.name /\ d.subdomain = "")
               /\ d.name = "a.b.example.com" => (d.zone_dns = "example.com" /\ d.subdomain = "a.b")
               /\ d.name = "example.com" => (d.zone_dns = "example.com" /\ d.subdomain = "")
               /\ d.name = "sub.example.com" => (d.zone_dns = "example.com" /\ d.subdomain = "sub")
    /\ (provider = Some("ovh") /\ requests /= <<>>) =>
           requests[1].url = "/v1/domain/zone/" \o LastTwoLabels(environment[1].record_name)
                             \o "/record?fieldType=A&subDomain="
                             \o PrecedingLabels(environment[1].record_name)

C11_Witness ==
    /\ Done /\ Len(derived) = 2 /\ Len(requests) = 4
    /\ derived[1].name = "a.b.example.com"
    /\ derived[2].zone_dns = "example.com" /\ derived[2].subdomain = "a.b"

\* a name of two labels has been through the derivation
C11_TwoLabelsReached ==
    /\ Len(derived) >= 1 /\ derived[1].name = "example.com"
    /\ derived[1].zone_dns = "example.com" /\ derived[1].subdomain = ""

\* C12: with the OVH provider, an update whose PUT does not raise returns the
\* empty error list, whatever the record and the new IP; so the run never
\* fails with an "update failed" error, and it returns changed = true whenever
\* the IPs differ and the PUT returns, whether the zone took the change or not.
C12_OvhUpdateNeverReportsErrors ==
    provider = Some("ovh") =>
        /\ Ended("update", "returned") =>
               /\ errors = Some(<<>>)
               /\ Done /\ Changed /\ error = None /\ exit_code = 0
               /\ update_result[1].reason = UpdatedReason(environment[1].record_name)
        /\ ~UpdateReturnedErrors
        /\ error /= None => ~Contains(error[1], "update failed")
        /\ (Done /\ Compared /\ record[1].ip /= public_ip[1] /\ ~Ended("update", "raised"))
               => (Changed /\ Len(Writes) = 1 /\ Writes[1].method = "PUT")

C12_Witness ==
    /\ Done /\ provider = Some("ovh") /\ Ended("update", "returned")
    /\ Changed /\ errors = Some(<<>>)
    /\ zone = zone_at_start

\* provider.get has been called and has ended
Fetched == Count("get") = 1

\* the value that holds the matches: Cloudflare's "result", OVH's id list
MatchList ==
    IF provider = Some("cloudflare")
    THEN IF responses[1].type = "dict" /\ HasKey(responses[1], "result")
         THEN Lookup(responses[1], "result")
         ELSE JNull
    ELSE responses[1]

\* the provider reports zero matching A records
ZeroMatches == responses /= <<>> /\ MatchList.type = "list" /\ Len(MatchList.items) = 0

HasKeys(v, keys) == v.type = "dict" /\ \A k \in keys : HasKey(v, k) /\ Lookup(v, k).type = "str"

\* the provider reports at least one match, in the shape of its API
SomeMatch ==
    /\ responses /= <<>> /\ MatchList.type = "list" /\ Len(MatchList.items) > 0
    /\ IF provider = Some("cloudflare")
       THEN HasKeys(MatchList.items[1], {"id", "name", "content"})
       ELSE /\ MatchList.items[1].type = "str"
            /\ Len(responses) = 2 /\ HasKeys(responses[2], {"target"})

\* the record built from the first match
FirstMatch ==
    IF provider = Some("cloudflare")
    THEN RecordDTO(Lookup(MatchList.items[1], "id").str, Lookup(MatchList.items[1], "name").str,
                   Lookup(MatchList.items[1], "content").str)
    ELSE RecordDTO(MatchList.items[1].str, environment[1].record_name,
                   Lookup(responses[2], "target").str)

\* an answer that is no list of matches and is empty all the same: Cloudflare's
\* "result" an empty string; OVH's answer None, an empty dict or an empty string
EmptyNoList ==
    /\ responses /= <<>> /\ MatchList.type /= "list"
    /\ IF provider = Some("cloudflare")
       THEN responses[1].type = "dict" /\ HasKey(responses[1], "result")
            /\ MatchList.type = "str" /\ MatchList.str = ""
       ELSE MatchList.type = "null" \/ PyLen(MatchList) = 0

GetRaised ==
    /\ Ended("get", "raised") /\ Done /\ error /= None /\ record = None
    /\ Count("public_ip") = 0 /\ Count("update") = 0

\* C13 as stated: the fetch returns no-value whenever the provider reports
\* zero matching A records, otherwise the record built from the first match
\* (Cloudflare: id, name and content of result[0]; OVH: the first id, the
\* requested name, the target of that record's detail); every other answer and
\* every transport or parsing failure is raised as an error, not reported as
\* no-value.
C13_OtherShapesRaise ==
    Fetched =>
        /\ ZeroMatches => Ended("get", "none")
        /\ SomeMatch => (Ended("get", "returned") /\ record = Some(FirstMatch))
        /\ (~ZeroMatches /\ ~SomeMatch) => GetRaised

\* C13 amended: the fetch returns no-value when the provider reports zero
\* matching A records, and also when the answer is no list but is empty
\* (Cloudflare: "result" an empty string; OVH: None, an empty dict or an empty
\* string); it returns the record built from the first match when there is
\* one; every other answer and every transport or parsing failure is raised
\* as an error.
C13_EmptyAnswersAreNoValue ==
    Fetched =>
        /\ ZeroMatches => Ended("get", "none")
        /\ EmptyNoList => Ended("get", "none")
        /\ SomeMatch => (Ended("get", "returned") /\ record = Some(FirstMatch))
        /\ (~ZeroMatches /\ ~EmptyNoList /\ ~SomeMatch) => GetRaised
        /\ Ended("get", "none") => (ZeroMatches \/ EmptyNoList)

C13_Witness ==
    /\ Fetched /\ SomeMatch /\ Len(MatchList.items) = 2
    /\ provider = Some("cloudflare")
    /\ record = Some(FirstMatch)
    /\ record[1].name = StoredName(environment[1].record_name)
    /\ record[1].id = zone[1].id

\* an answer with "result": null ends the run with the TypeError
C13_NullResultRaised ==
    /\ Fetched /\ provider = Some("cloudflare") /\ responses /= <<>>
    /\ HasKey(responses[1], "result") /\ MatchList.type = "null"
    /\ GetRaised /\ error = Some("'NoneType' object is not subscriptable")

\* an earlier invocation returned changed = true, the provider applied its
\* write, and every invocation since has resolved that same public IP
Settled == history /= <<>> /\ history[1].settled /= None

\* C14: when an invocation returned changed = true and the provider applied
\* the write, every following invocation of the same command line that
\* resolves the same public IP, with nothing else changed at the provider,
\* invokes no update and returns changed = false; however many such
\* invocations follow, none sends a write and the record stays as written.
C14_ConvergesAcrossRuns ==
    (Settled /\ public_ip \in {None, history[1].settled}) =>
        /\ Count("update") = 0
        /\ Writes = <<>>
        /\ zone = zone_at_start
        /\ zone /= None /\ zone[1].content = history[1].settled[1]
        /\ Compared => (Done /\ Unchanged /\ exit_code = 0)

C14_Witness ==
    /\ Run = 3 /\ Settled
    /\ ~history[1].changed /\ history[1].ip = history[1].settled
    /\ Done /\ Compared /\ public_ip = history[1].settled
    /\ Unchanged /\ Writes = <<>>

\* C15: with the OVH provider, the zone and the subdomain of the update's PUT
\* are the zone and the subdomain of the fetch's GET of the same run, because
\* the fetched record carries the requested name as it is and both operations
\* derive them from it; the record id in the PUT's path is the first id the
\* id query returned.
C15_OvhPutUsesFetchZone ==
    (provider = Some("ovh") /\ Count("update") = 1) =>
        /\ record[1].name = environment[1].record_name
        /\ record[1].id = responses[1].items[1].str
        /\ Len(derived) = 2
        /\ derived[1].op = "get" /\ derived[2].op = "update"
        /\ derived[1].name = environment[1].record_name
        /\ derived[2].name = derived[1].name
        /\ derived[2].zone_dns = derived[1].zone_dns
        /\ derived[2].subdomain = derived[1].subdomain
        /\ requests[1].url = "/v1/domain/zone/" \o derived[1].zone_dns
                             \o "/record?fieldType=A&subDomain=" \o derived[1].subdomain
        /\ \A i \in 1..Len(Writes) :
               /\ Writes[i].method = "PUT"
               /\ Writes[i].url = "/v1/domain/zone/" \o derived[1].zone_dns \o "/record/"
                                  \o responses[1].items[1].str
               /\ Writes[i].url = requests[2].url
               /\ Writes[i].body = "subDomain=" \o derived[1].subdomain \o "&target="
                                   \o public_ip[1]

C15_Witness ==
    /\ Done /\ provider = Some("ovh") /\ Count("update") = 1 /\ Len(Writes) = 1
    /\ Len(responses[1].items) = 2
    /\ derived[2].zone_dns = "example.com" /\ derived[2].subdomain = "sub"
    /\ EndsWith(Writes[1].url, "/record/" \o zone_at_start[1].id)

\* the number of dot-separated labels of a name
NumLabels(name) == Cardinality(Dots(name)) + 1

\* C16: the OVH derivation splits every name without loss: with three or more
\* labels the subdomain, a dot and the zone make up the name again; with one
\* or two labels the zone is the whole name and the subdomain is empty, so a
\* name of one label has a zone of one label; the zone never has more than
\* two labels.
C16_LosslessSplit ==
    \A i \in 1..Len(derived) :
        LET d == derived[i]
        IN  /\ NumLabels(d.name) >= 3 =>
                   /\ d.subdomain \o "." \o d.zone_dns = d.name
                   /\ NumLabels(d.zone_dns) = 2
                   /\ NumLabels(d.subdomain) = NumLabels(d.name) - 2
            /\ NumLabels(d.name) <= 2 =>
                   /\ d.zone_dns = d.name
                   /\ d.subdomain = ""
                   /\ NumLabels(d.zone_dns) = NumLabels(d.name)
            /\ NumLabels(d.zone_dns) <= 2

C16_Witness ==
    /\ Len(derived) >= 1 /\ NumLabels(derived[1].name) = 1
    /\ derived[1].name = "ovh" /\ derived[1].zone_dns = "ovh" /\ derived[1].subdomain = ""

\* a name with a trailing dot has been split: its last label is empty
C16_TrailingDotReached ==
    /\ Len(derived) >= 1 /\ derived[1].name = "www.example.com."
    /\ derived[1].zone_dns = "com." /\ derived[1].subdomain = "www.example"

====
